---- MODULE Spec2Model ----
(***************************************************************************)
(* A model of libsoxr-rs: the Resampler Handle (struct Soxr), its          *)
(* trampoline block (struct TrampolineData), the shim input_trampoline,    *)
(* and the native engine behind the soxr_* calls of src/src/api.rs.        *)
(*                                                                         *)
(* The native engine is a separate C library.  It is modelled from the     *)
(* documentation of its entry points in api.rs and from what the tests     *)
(* and doc tests of this repository assert about it.  The DSP is           *)
(* abstracted to a rate ratio of one: a sample fed in is a sample that can *)
(* be read out, except that the engine may keep a fixed number of samples  *)
(* back until it is told that the input has ended.  Where api.rs lets the  *)
(* engine report an error, the model lets it accept or reject.             *)
(*                                                                         *)
(* A handler that the claims look into (set_input, output, drop) is a      *)
(* chain of steps, and hpc[h] is the position of handle h in it.  While a  *)
(* handle is inside a handler only that handler's next step is enabled:    *)
(* the API takes &mut self / &self on one thread.                          *)
(***************************************************************************)
EXTENDS Integers, FiniteSets, Sequences, TLC

\* ------------------------------------------------------------------ bounds
MaxBlocks == 2      \* trampoline blocks allocated in one run
MaxChannels == 1    \* largest channel count passed to create / set_num_channels
MaxSamples == 2     \* largest max_samples passed to set_input
MaxOlen == 2        \* largest sample count asked of output and largest buffer length
MaxLatency == 2     \* most samples the engine keeps back until end of input

\* --------------------------------------------------------------- constants
Handles == {1, 2}
Blocks == 1..MaxBlocks

\* Pointers.  A null pointer, the address of a trampoline block, and the
\* address of the scratch buffer (Vec<T>) a block owns are different values.
NULL == [kind |-> "null", id |-> 0]
BlockPtr(b) == [kind |-> "block", id |-> b]
BufPtr(b) == [kind |-> "buf", id |-> b]

NoError == "null"
\* What a native call returns as soxr_error_t besides null: a text, or bytes
\* that are not UTF-8.
Diagnostic == "diagnostic"
Undecodable == "undecodable"
EngineAnswers == {NoError, Diagnostic}
InputFnFailure == "input function reported failure"
SupplierErrors == {"ProcessError: Unexpected end of input"}
StateValues == {"Some Error"}

\* Datatype: one interleaved and one split sample format stand for the eight.
Datatypes == {"Float32I", "Float32S"}
is_interleaved(t) == t = "Float32I"

\* Option<IOSpec>: None, or the input and output datatype given to IOSpec::new.
NoIOSpec == [some |-> FALSE, input_type |-> "Float32I", output_type |-> "Float32I"]
IOSpec(input_type, output_type) ==
    [some |-> TRUE, input_type |-> input_type, output_type |-> output_type]
IOSpecs == {NoIOSpec} \cup {IOSpec(i, o) : i \in Datatypes, o \in Datatypes}

VARIABLES
    hpc,                    \* position of each handle: see HPC
    soxr,                   \* Soxr.soxr: TRUE when the engine pointer is non-null
    channels,               \* Soxr.channels
    io_spec,                \* Soxr.io_spec
    last_trampoline_data,   \* Soxr.last_trampoline_data: NULL (None) or a block pointer
    frame,                  \* arguments and locals of the handler in progress
    result,                 \* what the last finished call returned to the host
    eng,                    \* the native engine behind each handle
    heap,                   \* the trampoline blocks
    userState,              \* the host-owned state the supplier receives by reference
    shim,                   \* the last invocation of input_trampoline by the output call
                            \* in progress or just returned (NoShim after any other call)
    deleteCalls,            \* number of soxr_delete calls per handle
    native                  \* the soxr_process call made by the process call that
                            \* has just returned (NoNative after any other call)

handleVars == <<hpc, soxr, channels, io_spec, last_trampoline_data, frame, result>>
vars == <<hpc, soxr, channels, io_spec, last_trampoline_data, frame, result, eng, heap,
          userState, shim, deleteCalls, native>>

HPC == {"absent", "uncreated", "idle", "set_input", "output", "drop", "dropped", "aborted"}

NoFrame == [state |-> FALSE, max_samples |-> 0, len0 |-> 0, olen |-> 0, ilen |-> 0, odone0 |-> 0,
            data_bytes |-> 0]
\* What a call returns to the host: Ok with its counts, or an Error naming the
\* function it came from (error_handling.rs), or a panic.
Ret(kind, n, m) == [kind |-> kind, n |-> n, m |-> m, function |-> "None"]
Err(function, kind) == [kind |-> kind, n |-> 0, m |-> 0, function |-> function]
NoResult == Ret("none", 0, 0)

NoEngine == [status |-> "none", num_channels |-> 0, input_fn |-> FALSE,
             input_fn_state |-> NULL, max_ilen |-> 0, error |-> NoError,
             avail |-> 0, flushing |-> FALSE, data |-> NULL, pulled |-> FALSE,
             latency |-> 0, variable_rate |-> FALSE]

NoBlock == [status |-> "unalloc", owner |-> 0, check |-> "", input_state |-> 0,
            last_error |-> "None", input_buffer_size |-> 0, input_buffer_cap |-> 0,
            frees |-> 0, alloc_bytes |-> 0, layout_ok |-> TRUE]

NoShim == [kind |-> "none", ptr |-> NULL, req |-> 0, channels |-> 0, res |-> "none",
           n |-> 0, ret |-> 0, data |-> NULL, errBefore |-> "None", errAfter |-> "None",
           err |-> "None", write |-> "keep", view |-> 0, first_failed |-> "no",
           teardown |-> FALSE]

\* A pointer argument of soxr_process: the buffer's own start ("buffer"), or a
\* look-aside array whose entries are offsets into the buffer ("split").
BufferPtr == [kind |-> "buffer", entries |-> <<>>]
SplitPtr(entries) == [kind |-> "split", entries |-> entries]

NoNative == [called |-> FALSE, none |-> FALSE, in_null |-> FALSE, ilen |-> 0, olen |-> 0,
             buf_in |-> BufferPtr, buf_out |-> BufferPtr, in_len |-> 0, out_len |-> 0]

Min(a, b) == IF a <= b THEN a ELSE b

Aborted == \E h \in Handles : hpc[h] = "aborted"

\* The host starts a call on handle h: the record of the previous output call's
\* shim invocations is over, and the host has read and reset the note its
\* supplier leaves in the user state.
HostCalls(h) ==
    /\ shim' = [shim EXCEPT ![h] = NoShim]
    /\ userState' = "None"
    /\ native' = [native EXCEPT ![h] = NoNative]

\* ------------------------------------------------------------------- heap
Live(p) == p.kind = "block" /\ heap[p.id].status = "live"
Freed(p) == p.kind = "block" /\ heap[p.id].status = "freed"
FreeBlocks == {b \in Blocks : heap[b].status = "unalloc"}
NextBlock == CHOOSE b \in FreeBlocks : \A c \in FreeBlocks : b <= c

\* The sample type T of a registration, and std::mem::size_of::<T>().
SampleTypes == {"i16", "i32", "f32", "f64"}
size_of(T) == CASE T = "i16" -> 2 [] T = "i32" -> 4 [] T = "f32" -> 4 [] T = "f64" -> 8

\* A block after drop(Box<TrampolineData<i32, f32>>): the block and its Vec are
\* returned to the allocator, the Vec as a Vec<f32> of its capacity.  What the
\* memory holds afterwards is not the program's to know; the model keeps who
\* owned the block, how often it was released, and whether the Vec was
\* returned with the size it was allocated with.
Release(blk) == [NoBlock EXCEPT !.status = "freed", !.owner = blk.owner,
                                !.frees = blk.frees + 1,
                                !.layout_ok =
                                    (blk.input_buffer_cap * size_of("f32") = blk.alloc_bytes)]

\* drop_last_trampoline forgetting the Box: the field is reset, nothing is freed.
drop_last_trampoline_leak(h) ==
    [heap |-> heap, last |-> NULL]

\* A drop_last_trampoline that releases every live block, whoever retains it.
drop_last_trampoline_all(h) ==
    IF last_trampoline_data[h] # NULL
    THEN [heap |-> [b \in Blocks |->
                      IF heap[b].status = "live" THEN Release(heap[b]) ELSE heap[b]],
          last |-> NULL]
    ELSE [heap |-> heap, last |-> last_trampoline_data[h]]

\* Soxr::drop_last_trampoline: Box::from_raw + drop of the retained block, and
\* last_trampoline_data = None.  The result is the heap and the field afterwards.
drop_last_trampoline(h) ==
    IF last_trampoline_data[h] # NULL
    THEN [heap |-> [heap EXCEPT ![last_trampoline_data[h].id] = Release(@)],
          last |-> NULL]
    ELSE [heap |-> heap, last |-> last_trampoline_data[h]]

\* The TrampolineData<S, T> that set_input builds and boxes (state = Some(s)):
\* Vec::<T>::with_capacity allocates capacity * size_of::<T>() bytes.
TrampolineDataOf(h, max_samples, T) ==
    [status |-> "live", owner |-> h, check |-> "trampoline", input_state |-> 1,
     last_error |-> "None",
     input_buffer_size |-> max_samples * channels[h],
     input_buffer_cap |-> max_samples * channels[h],
     frees |-> 0,
     alloc_bytes |-> max_samples * channels[h] * size_of(T),
     layout_ok |-> TRUE]

\* ------------------------------------------------------------ diagnostics
\* wrapper_helpers::from_const: Err(InvalidString) for a null pointer and for
\* bytes that are not UTF-8, else the text.
from_const(str) == IF str \in {NoError, Undecodable} THEN "InvalidString" ELSE str

\* Err(Error::new(.., ErrorType::X(from_const(.., error).unwrap().to_string()))):
\* the typed error, or the panic of unwrap() on the Err(InvalidString) that
\* from_const made for this function.
typed_error(function, kind, diag) ==
    IF from_const(diag) = "InvalidString"
    THEN Err(function, "panic")
    ELSE Err(function, kind)

\* What a native call answers for handle h when the engine itself would answer
\* diag: a null soxr_t is always answered with a diagnostic.
Answer(h, diag) == IF ~soxr[h] /\ diag = NoError THEN Diagnostic ELSE diag

\* ------------------------------------------------------------------ create
\* Soxr::create.  `error` is a local null pointer that soxr_create receives by
\* value, so `error.is_null()` holds whatever the engine answered.
create_error_is_null(accepted) == TRUE

CreateQ(h, num_channels, spec, latency, variable_rate, accepted) ==
    /\ ~Aborted
    /\ hpc[h] = "uncreated"
    /\ hpc' = [hpc EXCEPT ![h] = IF create_error_is_null(accepted) THEN "idle" ELSE "uncreated"]
    /\ soxr' = [soxr EXCEPT ![h] = accepted /\ create_error_is_null(accepted)]
    /\ channels' = [channels EXCEPT ![h] =
                      IF create_error_is_null(accepted) THEN num_channels ELSE @]
    /\ io_spec' = [io_spec EXCEPT ![h] =
                     IF create_error_is_null(accepted) THEN spec ELSE @]
    /\ eng' = [eng EXCEPT ![h] = IF accepted
                                  THEN [NoEngine EXCEPT !.status = "live",
                                                        !.num_channels = num_channels,
                                                        !.latency = latency,
                                                        !.variable_rate = variable_rate]
                                  ELSE NoEngine]
    /\ result' = [result EXCEPT ![h] =
                    IF create_error_is_null(accepted) THEN Ret("ok", 0, 0)
                    ELSE Err("Soxr::new", "CreateError")]
    /\ UNCHANGED <<last_trampoline_data, frame, heap, userState, shim, deleteCalls, native>>

\* Soxr::create without the variable-rate flag in the quality spec.
Create(h, num_channels, spec, latency, accepted) ==
    CreateQ(h, num_channels, spec, latency, FALSE, accepted)

\* -------------------------------------------------------- set_num_channels
\* set_num_channels caching the count whatever the engine answered.
SetNumChannelsUnchecked(h, num_channels, accepted) ==
    /\ ~Aborted
    /\ hpc[h] = "idle"
    /\ LET ok == soxr[h] /\ accepted IN
       /\ channels' = [channels EXCEPT ![h] = num_channels]
       /\ eng' = [eng EXCEPT ![h].num_channels = IF ok THEN num_channels ELSE @]
       /\ result' = [result EXCEPT ![h] =
                       IF ok THEN Ret("ok", 0, 0)
                       ELSE Err("Soxr::set_num_channels", "ChangeError")]
    /\ HostCalls(h)
    /\ UNCHANGED <<hpc, soxr, last_trampoline_data, frame, heap, deleteCalls, io_spec>>

\* Soxr::set_num_channels, the engine answering diag: it changes its count and
\* returns null, or returns an error and keeps its count; self.channels is set
\* in the first case, and the error is decoded in the second.
set_num_channels(h, num_channels, diag) ==
    /\ ~Aborted
    /\ hpc[h] = "idle"
    /\ LET error == Answer(h, diag)
           ok == error = NoError
       IN
       /\ channels' = [channels EXCEPT ![h] = IF ok THEN num_channels ELSE @]
       /\ eng' = [eng EXCEPT ![h].num_channels = IF ok THEN num_channels ELSE @]
       /\ result' = [result EXCEPT ![h] =
                       IF ok THEN Ret("ok", 0, 0)
                       ELSE typed_error("Soxr::set_num_channels", "ChangeError", error)]
    /\ HostCalls(h)
    /\ UNCHANGED <<hpc, soxr, last_trampoline_data, frame, heap, deleteCalls, io_spec>>

\* set_num_channels with an engine that accepts, or rejects with a text.
SetNumChannels(h, num_channels, accepted) ==
    set_num_channels(h, num_channels, IF accepted THEN NoError ELSE Diagnostic)

\* -------------------------------------------------------------------- clear
\* A clear that also forgets the input function.
clear_unregisters(h, diag) ==
    /\ ~Aborted
    /\ hpc[h] = "idle"
    /\ LET error == Answer(h, diag)
           ok == error = NoError
       IN
       /\ eng' = [eng EXCEPT ![h].avail = IF ok THEN 0 ELSE @,
                             ![h].flushing = IF ok THEN FALSE ELSE @,
                             ![h].error = IF ok THEN NoError ELSE @,
                             ![h].input_fn = IF ok THEN FALSE ELSE @,
                             ![h].input_fn_state = IF ok THEN NULL ELSE @]
       /\ result' = [result EXCEPT ![h] =
                       IF ok THEN Ret("ok", 0, 0)
                       ELSE typed_error("Soxr::clear", "ChangeError", error)]
    /\ HostCalls(h)
    /\ UNCHANGED <<hpc, soxr, channels, last_trampoline_data, frame, heap, deleteCalls,
                   io_spec>>

\* Soxr::clear, the engine answering diag: on null the engine is ready for a
\* fresh signal with the same configuration.
clear(h, diag) ==
    /\ ~Aborted
    /\ hpc[h] = "idle"
    /\ LET error == Answer(h, diag)
           ok == error = NoError
       IN
       /\ eng' = [eng EXCEPT ![h].avail = IF ok THEN 0 ELSE @,
                             ![h].flushing = IF ok THEN FALSE ELSE @,
                             ![h].error = IF ok THEN NoError ELSE @]
       /\ result' = [result EXCEPT ![h] =
                       IF ok THEN Ret("ok", 0, 0)
                       ELSE typed_error("Soxr::clear", "ChangeError", error)]
    /\ HostCalls(h)
    /\ UNCHANGED <<hpc, soxr, channels, last_trampoline_data, frame, heap, deleteCalls,
                   io_spec>>

\* clear with an engine that accepts, or rejects with a text.
Clear(h, accepted) == clear(h, IF accepted THEN NoError ELSE Diagnostic)

\* ------------------------------------------------------------- set_io_ratio
\* A set_io_ratio that does not look at what the engine answered.
set_io_ratio_unchecked(h, diag) ==
    /\ ~Aborted
    /\ hpc[h] = "idle"
    /\ result' = [result EXCEPT ![h] = Ret("ok", 0, 0)]
    /\ HostCalls(h)
    /\ UNCHANGED <<hpc, soxr, channels, last_trampoline_data, frame, eng, heap,
                   deleteCalls, io_spec>>

\* Soxr::set_io_ratio, the engine answering diag.  An engine that was not
\* created for variable-rate resampling answers with an error that decodes
\* (test_set_io_ratio: is_err, no panic).  The ratio itself is abstracted away.
set_io_ratio(h, diag) ==
    /\ ~Aborted
    /\ hpc[h] = "idle"
    /\ LET error == IF soxr[h] /\ ~eng[h].variable_rate
                    THEN Diagnostic ELSE Answer(h, diag)
       IN result' = [result EXCEPT ![h] =
                       IF error = NoError THEN Ret("ok", 0, 0)
                       ELSE typed_error("Soxr::set_io_ratio", "ChangeError", error)]
    /\ HostCalls(h)
    /\ UNCHANGED <<hpc, soxr, channels, last_trampoline_data, frame, eng, heap,
                   deleteCalls, io_spec>>

\* ---------------------------------------------------------------- set_error
\* Soxr::set_error(msg), the engine answering diag.  CString::new(msg).unwrap()
\* panics on a message with an interior NUL, before the native call; on null
\* the engine's error is the message.
set_error(h, msg, diag) ==
    /\ ~Aborted
    /\ hpc[h] = "idle"
    /\ LET error == Answer(h, diag) IN
       IF msg = "interior NUL"
       THEN /\ result' = [result EXCEPT ![h] = Ret("panic", 0, 0)]
            /\ UNCHANGED eng
       ELSE /\ eng' = [eng EXCEPT ![h].error = IF error = NoError THEN msg ELSE @]
            /\ result' = [result EXCEPT ![h] =
                            IF error = NoError THEN Ret("ok", 0, 0)
                            ELSE typed_error("Soxr::new", "ChangeError", error)]
    /\ HostCalls(h)
    /\ UNCHANGED <<hpc, soxr, channels, last_trampoline_data, frame, heap, deleteCalls,
                   io_spec>>

\* ---------------------------------------------------------------- set_input
\* Soxr::set_input, lines 393-404: the retained block is dropped, then the new
\* block (if state is Some) is boxed and retained.  The engine has not been
\* called yet.
SetInputBeginOf(h, state, max_samples, T) ==
    /\ ~Aborted
    /\ hpc[h] = "idle"
    /\ state => FreeBlocks # {}
    /\ LET d == drop_last_trampoline(h) IN
       /\ heap' = IF state
                  THEN [d.heap EXCEPT ![NextBlock] = TrampolineDataOf(h, max_samples, T)]
                  ELSE d.heap
       /\ last_trampoline_data' = [last_trampoline_data EXCEPT ![h] =
                                     IF state THEN BlockPtr(NextBlock) ELSE d.last]
    /\ frame' = [frame EXCEPT ![h] = [NoFrame EXCEPT !.state = state,
                                                     !.max_samples = max_samples]]
    /\ hpc' = [hpc EXCEPT ![h] = "set_input"]
    /\ HostCalls(h)
    /\ UNCHANGED <<soxr, channels, result, eng, deleteCalls, io_spec>>

\* set_input::<S, f32>, the sample type of the tests.
SetInputBegin(h, state, max_samples) == SetInputBeginOf(h, state, max_samples, "f32")

\* What soxr_set_input_fn(soxr, Some(input_trampoline), state pointer, max_samples)
\* leaves in the engine when it accepts the registration.
soxr_set_input_fn(e, input_fn_state, max_ilen) ==
    [e EXCEPT !.input_fn = TRUE, !.input_fn_state = input_fn_state,
              !.max_ilen = max_ilen, !.pulled = FALSE]

\* Soxr::set_input, lines 406-422: the native registration and the result.
SetInputRegister(h, accepted) ==
    /\ ~Aborted
    /\ hpc[h] = "set_input"
    /\ soxr[h]
    /\ eng' = [eng EXCEPT ![h] =
                 IF accepted
                 THEN soxr_set_input_fn(@, last_trampoline_data[h], frame[h].max_samples)
                 ELSE @]
    /\ result' = [result EXCEPT ![h] =
                    IF accepted THEN Ret("ok", 0, 0)
                    ELSE Err("Soxr::set_input", "ProcessError")]
    /\ frame' = [frame EXCEPT ![h] = NoFrame]
    /\ hpc' = [hpc EXCEPT ![h] = "idle"]
    /\ UNCHANGED <<soxr, channels, last_trampoline_data, heap, userState, shim,
                   deleteCalls, io_spec, native>>

\* The same call on a handle whose engine pointer is null (create kept the handle
\* although soxr_create gave none): the engine reports an error or the write
\* through the null pointer ends the process.
SetInputRegisterNull(h, segv) ==
    /\ ~Aborted
    /\ hpc[h] = "set_input"
    /\ ~soxr[h]
    /\ result' = [result EXCEPT ![h] =
                    IF segv THEN @ ELSE Err("Soxr::set_input", "ProcessError")]
    /\ frame' = [frame EXCEPT ![h] = NoFrame]
    /\ hpc' = [hpc EXCEPT ![h] = IF segv THEN "aborted" ELSE "idle"]
    /\ UNCHANGED <<soxr, channels, last_trampoline_data, eng, heap, userState, shim,
                   deleteCalls, io_spec, native>>

\* ------------------------------------------------------------------- shim
\* What the supplier (SoxrFunction) may do: return Ok(n) or Err(e), and write
\* the user state it holds by reference ("keep" leaves it alone).  n may exceed
\* the request: nothing in the type prevents it.
SupplierResults(req) ==
    [ok : {TRUE}, n : 0..(req + 1), err : {"None"}, write : {"keep"} \cup StateValues]
    \cup [ok : {FALSE}, n : {0}, err : SupplierErrors, write : {"keep"} \cup StateValues]

\* The Ok arm publishing a null pointer for end of input (n = 0).
trampoline_ok_null_at_eof(b, r) ==
    [data |-> IF r.n = 0 THEN NULL ELSE BufPtr(b), ret |-> r.n,
     last_error |-> heap[b].last_error]

\* input_trampoline, Ok arm (lines 485-488): what is published and returned.
trampoline_ok(b, r) ==
    [data |-> BufPtr(b), ret |-> r.n, last_error |-> heap[b].last_error]

\* The Err arm not recording the supplier's error.
trampoline_err_unrecorded(b, r) ==
    [data |-> NULL, ret |-> 0, last_error |-> heap[b].last_error]

\* The Err arm publishing the scratch buffer, as the Ok arm does.
trampoline_err_publishes(b, r) ==
    [data |-> BufPtr(b), ret |-> 0, last_error |-> r.err]

\* input_trampoline, Err arm (lines 489-493).
trampoline_err(b, r) ==
    [data |-> NULL, ret |-> 0, last_error |-> r.err]

\* input_trampoline on block b with request req, the supplier answering r.
input_trampoline(b, req, r) ==
    IF r.ok THEN trampoline_ok(b, r) ELSE trampoline_err(b, r)

\* The reference the supplier writes through: TrampolineData.input_state is
\* the host's &mut S itself, so the write lands in the host-owned state.
supplier_write(b, r) ==
    IF r.write # "keep" /\ heap[b].input_state = 1 THEN r.write ELSE userState

\* What dereferencing the state pointer yields (line 470).  A live block is
\* read as it is.  A null pointer faults.  A freed block is undefined
\* behaviour: the memory may still hold the block ("stale"), may fail the
\* tag assertion of line 471, or may fault; the last two end the process
\* (a panic cannot unwind out of an extern "C" fn).
DerefOutcomes(p) ==
    IF Live(p) THEN {"live"}
    ELSE IF p.kind = "block" THEN {"stale", "tag_assert", "segv"}
    ELSE {"segv"}

\* Of the samples the engine owes, those it can write now: all of them once it
\* has been told the input has ended, all but `latency` of them before.
Releasable(owed, flushing, latency) ==
    IF flushing THEN owed ELSE IF owed > latency THEN owed - latency ELSE 0

\* A turn of soxr_output's loop that writes all the engine can release,
\* whatever room the buffer has left.
OdoneUnclamped(h) == Releasable(eng[h].avail, eng[h].flushing, eng[h].latency)

\* One turn of soxr_output's loop: what the engine can write without input.
Odone(h) == Min(Releasable(eng[h].avail, eng[h].flushing, eng[h].latency), frame[h].olen)

\* A view cut to the request: requested_len samples for each channel.
input_data_of_requested_length(h, b, req) == req * channels[h]

\* input_trampoline, lines 473-476: the length of the slice handed to the
\* supplier, std::slice::from_raw_parts_mut(.., trampoline_data.input_buffer_size).
input_data(h, b, req) == heap[b].input_buffer_size

\* The record of one shim invocation.  first_failed remembers, for the rest of
\* the output call, that the first invocation since the registration failed:
\* "dry" when the call had written no sample before it, "wet" when it had.
ShimRecord(h, p, req, r, t, kind) ==
    [kind |-> kind, ptr |-> p, req |-> req, channels |-> channels[h],
     res |-> IF r.ok THEN "ok" ELSE "err", n |-> r.n, ret |-> t.ret, data |-> t.data,
     errBefore |-> heap[p.id].last_error, errAfter |-> t.last_error,
     err |-> r.err, write |-> r.write, view |-> input_data(h, p.id, req),
     first_failed |-> IF ~eng[h].pulled /\ ~r.ok
                      THEN (IF frame[h].odone0 + Odone(h) = 0 THEN "dry" ELSE "wet")
                      ELSE shim[h].first_failed,
     teardown |-> hpc[h] \in {"drop", "dropped"}]

\* -------------------------------------------------------------------- output
\* Soxr::output::<S> up to the native call: the assertion on the buffer length,
\* counted in elements of S, and soxr_output's entry (it returns 0 at once when
\* its error is set).  The engine is given data.as_mut_ptr() as *mut c_void:
\* the memory behind it is len elements of size_of::<S>() bytes.
OutputCallOf(h, len, samples, S) ==
    /\ ~Aborted
    /\ hpc[h] = "idle"
    /\ soxr[h]
    /\ IF ~(len >= samples * channels[h])
       THEN /\ result' = [result EXCEPT ![h] = Ret("panic", 0, 0)]
            /\ UNCHANGED <<hpc, frame>>
       ELSE IF eng[h].error # NoError
       THEN /\ result' = [result EXCEPT ![h] = Ret("ok", 0, 0)]
            /\ UNCHANGED <<hpc, frame>>
       ELSE /\ frame' = [frame EXCEPT ![h] =
                           [NoFrame EXCEPT !.len0 = samples, !.olen = samples,
                                           !.ilen = Min(eng[h].max_ilen, samples),
                                           !.data_bytes = len * size_of(S)]]
            /\ hpc' = [hpc EXCEPT ![h] = "output"]
            /\ UNCHANGED result
    /\ HostCalls(h)
    /\ UNCHANGED <<soxr, channels, last_trampoline_data, eng, heap, deleteCalls, io_spec>>

\* output on a buffer of f32, the sample type of the default IOSpec.
OutputCall(h, len, samples) == OutputCallOf(h, len, samples, "f32")

\* Soxr::output on a handle whose engine pointer is null.
OutputCallNull(h, len, samples, segv) ==
    /\ ~Aborted
    /\ hpc[h] = "idle"
    /\ ~soxr[h]
    /\ IF ~(len >= samples * channels[h])
       THEN /\ result' = [result EXCEPT ![h] = Ret("panic", 0, 0)]
            /\ UNCHANGED hpc
       ELSE /\ result' = [result EXCEPT ![h] = IF segv THEN @ ELSE Ret("ok", 0, 0)]
            /\ hpc' = [hpc EXCEPT ![h] = IF segv THEN "aborted" ELSE @]
    /\ HostCalls(h)
    /\ UNCHANGED <<soxr, channels, last_trampoline_data, frame, eng, heap, deleteCalls,
                   io_spec>>

\* soxr_output returning as soon as it has written anything (a short read).
OutputBreaksShort(h) ==
    \/ frame[h].odone0 + Odone(h) > 0
    \/ frame[h].odone0 + Odone(h) = frame[h].len0
    \/ ~eng[h].input_fn
    \/ eng[h].flushing

\* soxr_output leaves its loop without asking for input: the buffer is full,
\* there is no input function, or the input has ended.
OutputBreaks(h) ==
    \/ frame[h].odone0 + Odone(h) = frame[h].len0
    \/ ~eng[h].input_fn
    \/ eng[h].flushing

\* soxr_output returning samples that it leaves in the engine.
OutputReturnKeeps(h) ==
    /\ ~Aborted
    /\ hpc[h] = "output"
    /\ OutputBreaks(h)
    /\ result' = [result EXCEPT ![h] = Ret("ok", frame[h].odone0 + Odone(h), 0)]
    /\ frame' = [frame EXCEPT ![h] = NoFrame]
    /\ hpc' = [hpc EXCEPT ![h] = "idle"]
    /\ UNCHANGED <<soxr, channels, last_trampoline_data, heap, userState, shim,
                   deleteCalls, io_spec, native, eng>>

\* soxr_output returns without asking for input.
OutputReturn(h) ==
    /\ ~Aborted
    /\ hpc[h] = "output"
    /\ OutputBreaks(h)
    /\ eng' = [eng EXCEPT ![h].avail = @ - Odone(h)]
    /\ result' = [result EXCEPT ![h] = Ret("ok", frame[h].odone0 + Odone(h), 0)]
    /\ frame' = [frame EXCEPT ![h] = NoFrame]
    /\ hpc' = [hpc EXCEPT ![h] = "idle"]
    /\ UNCHANGED <<soxr, channels, last_trampoline_data, heap, userState, shim,
                   deleteCalls, io_spec, native>>

\* soxr_output asks for input: the engine calls the registered shim with its
\* state pointer, takes what the shim published, and goes round or returns.
OutputPull(h, r, outcome) ==
    /\ ~Aborted
    /\ hpc[h] = "output"
    /\ ~OutputBreaks(h)
    /\ outcome \in DerefOutcomes(eng[h].input_fn_state) \cap {"live", "stale"}
    /\ LET p == eng[h].input_fn_state
           b == p.id
           odone == Odone(h)
           t == input_trampoline(b, frame[h].ilen, r)
           failed == t.data = NULL
           flush == ~failed /\ t.ret = 0
           again == odone > 0 \/ t.ret > 0 \/ flush
       IN
       /\ heap' = IF outcome = "live" THEN [heap EXCEPT ![b].last_error = t.last_error]
                  ELSE heap
       /\ userState' = supplier_write(b, r)
       /\ shim' = [shim EXCEPT ![h] = ShimRecord(h, p, frame[h].ilen, r, t, outcome)]
       /\ eng' = [eng EXCEPT ![h].avail = IF failed THEN @ - odone ELSE @ - odone + t.ret,
                             ![h].error = IF failed THEN InputFnFailure ELSE @,
                             ![h].flushing = flush,
                             ![h].data = t.data,
                             ![h].pulled = TRUE]
       /\ IF again
          THEN /\ frame' = [frame EXCEPT ![h].odone0 = @ + odone, ![h].olen = @ - odone]
               /\ UNCHANGED <<hpc, result>>
          ELSE /\ result' = [result EXCEPT ![h] =
                               Ret("ok", frame[h].odone0 + odone, 0)]
               /\ frame' = [frame EXCEPT ![h] = NoFrame]
               /\ hpc' = [hpc EXCEPT ![h] = "idle"]
    /\ UNCHANGED <<soxr, channels, last_trampoline_data, deleteCalls, io_spec, native>>

\* The shim's dereference of its state pointer ends the process.
OutputPullAbort(h, outcome) ==
    /\ ~Aborted
    /\ hpc[h] = "output"
    /\ ~OutputBreaks(h)
    /\ outcome \in DerefOutcomes(eng[h].input_fn_state) \cap {"tag_assert", "segv"}
    /\ shim' = [shim EXCEPT ![h] = [NoShim EXCEPT !.kind = outcome,
                                                  !.ptr = eng[h].input_fn_state,
                                                  !.req = frame[h].ilen,
                                                  !.channels = channels[h]]]
    /\ hpc' = [hpc EXCEPT ![h] = "aborted"]
    /\ UNCHANGED <<soxr, channels, last_trampoline_data, frame, result, eng, heap,
                   userState, deleteCalls, io_spec, native>>

\* --------------------------------------------------------------------- drop
\* impl Drop for Soxr, line 514: drop_last_trampoline.
DropBegin(h) ==
    /\ ~Aborted
    /\ hpc[h] = "idle"
    /\ LET d == drop_last_trampoline(h) IN
       /\ heap' = d.heap
       /\ last_trampoline_data' = [last_trampoline_data EXCEPT ![h] = d.last]
    /\ hpc' = [hpc EXCEPT ![h] = "drop"]
    /\ HostCalls(h)
    /\ UNCHANGED <<soxr, channels, frame, result, eng, deleteCalls, io_spec>>

\* A drop that drains the engine through the shim before deleting it.
DropDeleteDrains(h) ==
    /\ ~Aborted
    /\ hpc[h] = "drop"
    /\ deleteCalls' = [deleteCalls EXCEPT ![h] = @ + 1]
    /\ eng' = [eng EXCEPT ![h].status = IF @ = "live" THEN "deleted" ELSE @]
    /\ hpc' = [hpc EXCEPT ![h] = "dropped"]
    /\ shim' = [shim EXCEPT ![h] =
                  IF eng[h].input_fn /\ eng[h].input_fn_state.kind = "block"
                  THEN LET r == [ok |-> TRUE, n |-> 0, err |-> "None", write |-> "keep"]
                           b == eng[h].input_fn_state.id
                       IN ShimRecord(h, eng[h].input_fn_state, 0, r,
                                     input_trampoline(b, 0, r), "stale")
                  ELSE @]
    /\ UNCHANGED <<soxr, channels, last_trampoline_data, frame, result, heap, userState,
                   io_spec, native>>

\* impl Drop for Soxr, line 517: soxr_delete.
DropDelete(h) ==
    /\ ~Aborted
    /\ hpc[h] = "drop"
    /\ deleteCalls' = [deleteCalls EXCEPT ![h] = @ + 1]
    /\ eng' = [eng EXCEPT ![h].status = IF @ = "live" THEN "deleted" ELSE @]
    /\ hpc' = [hpc EXCEPT ![h] = "dropped"]
    /\ UNCHANGED <<soxr, channels, last_trampoline_data, frame, result, heap, userState,
                   shim, io_spec, native>>

\* ------------------------------------------------------------------ process
\* get_buf_in_ptr rounding the segment length up instead of down.
get_buf_in_ptr_rounded_up(h, len) ==
    IF ~io_spec[h].some THEN BufferPtr
    ELSE IF is_interleaved(io_spec[h].input_type) THEN BufferPtr
    ELSE LET samples_in_buf == (len + channels[h] - 1) \div channels[h] IN
         SplitPtr([k \in 1..channels[h] |-> (k - 1) * samples_in_buf])

\* Soxr::get_buf_in_ptr for a buffer of len scalars: the buffer itself when
\* there is no IOSpec or the input type is interleaved, else a look-aside
\* array with one entry per channel, entry k at k * (len / channels).
get_buf_in_ptr(h, len) ==
    IF ~io_spec[h].some THEN BufferPtr
    ELSE IF is_interleaved(io_spec[h].input_type) THEN BufferPtr
    ELSE LET samples_in_buf == len \div channels[h] IN
         SplitPtr([k \in 1..channels[h] |-> (k - 1) * samples_in_buf])

\* Soxr::get_buf_out_ptr: the same, and it too looks at the input type.
get_buf_out_ptr(h, len) ==
    IF ~io_spec[h].some THEN BufferPtr
    ELSE IF is_interleaved(io_spec[h].input_type) THEN BufferPtr
    ELSE LET samples_in_buf == len \div channels[h] IN
         SplitPtr([k \in 1..channels[h] |-> (k - 1) * samples_in_buf])

\* process handing the engine an empty buffer, not a null pointer, for None.
process_call_none_as_empty(h, ilen, olen) ==
    [called |-> TRUE, none |-> ilen < 0, in_null |-> FALSE,
     ilen |-> IF ilen < 0 THEN 0 ELSE ilen \div channels[h],
     olen |-> olen \div channels[h],
     buf_in |-> IF ilen < 0 THEN BufferPtr ELSE get_buf_in_ptr(h, ilen),
     buf_out |-> get_buf_out_ptr(h, olen),
     in_len |-> IF ilen < 0 THEN 0 ELSE ilen, out_len |-> olen]

\* The arguments Soxr::process gives soxr_process for buffers of ilen and olen
\* scalars; ilen < 0 stands for buf_in = None.
process_call(h, ilen, olen) ==
    IF ilen < 0
    THEN [called |-> TRUE, none |-> TRUE, in_null |-> TRUE, ilen |-> 0,
          olen |-> olen \div channels[h],
          buf_in |-> BufferPtr, buf_out |-> get_buf_out_ptr(h, olen),
          in_len |-> 0, out_len |-> olen]
    ELSE [called |-> TRUE, none |-> FALSE, in_null |-> FALSE,
          ilen |-> ilen \div channels[h],
          olen |-> olen \div channels[h],
          buf_in |-> get_buf_in_ptr(h, ilen), buf_out |-> get_buf_out_ptr(h, olen),
          in_len |-> ilen, out_len |-> olen]

\* The layout the engine was created with: soxr_create received the IOSpec's
\* soxr_io_spec_t, or null for the default (interleaved) formats.
EngineSplitIn(h) == io_spec[h].some /\ ~is_interleaved(io_spec[h].input_type)
EngineSplitOut(h) == io_spec[h].some /\ ~is_interleaved(io_spec[h].output_type)

\* The engine reads n samples per channel through pointer p of a buffer of len
\* scalars, taking p for a look-aside array when its format is split.  All it
\* touches lies inside the buffer: an interleaved engine touches the first
\* n * channels scalars at p, a split engine n scalars at each entry.  Given
\* the other kind of pointer it takes samples for pointers or the reverse.
AccessInside(p, split, n, num_channels, len) ==
    IF n = 0 THEN TRUE
    ELSE IF split /\ p.kind = "split"
    THEN \A k \in DOMAIN p.entries : p.entries[k] + n <= len
    ELSE IF ~split /\ p.kind = "buffer" THEN n * num_channels <= len
    ELSE FALSE

\* A null engine is rejected by soxr_process before it touches anything.
ReadsInside(h, call) ==
    \/ ~soxr[h]
    \/ call.in_null
    \/ AccessInside(call.buf_in, EngineSplitIn(h), call.ilen, channels[h], call.in_len)
WritesInside(h, call) ==
    \/ ~soxr[h]
    \/ AccessInside(call.buf_out, EngineSplitOut(h), call.olen, channels[h], call.out_len)

\* Soxr::process for buffers of ilen and olen scalars (ilen < 0: buf_in is
\* None).  The division by a channel count of 0 panics before the native call.
\* soxr_process takes at most as much input as the output has room for and
\* writes what the engine can release; an access outside the buffers is
\* undefined behaviour, which goes unnoticed or ends the process.
Process(h, ilen, olen, outcome) ==
    /\ ~Aborted
    /\ hpc[h] = "idle"
    /\ shim' = [shim EXCEPT ![h] = NoShim]
    /\ userState' = "None"
    /\ IF channels[h] = 0
       THEN /\ outcome = "ok"
            /\ result' = [result EXCEPT ![h] = Ret("panic", 0, 0)]
            /\ native' = [native EXCEPT ![h] = NoNative]
            /\ UNCHANGED <<hpc, eng>>
       ELSE LET call == process_call(h, ilen, olen)
                idone == IF call.in_null THEN 0 ELSE Min(call.ilen, call.olen)
                flushing == eng[h].flushing \/ call.in_null
                owed == eng[h].avail + idone
                odone == Min(Releasable(owed, flushing, eng[h].latency), call.olen)
            IN
            /\ native' = [native EXCEPT ![h] = call]
            /\ outcome = "segv" => ~(ReadsInside(h, call) /\ WritesInside(h, call))
            /\ IF outcome = "segv"
               THEN /\ hpc' = [hpc EXCEPT ![h] = "aborted"]
                    /\ UNCHANGED <<eng, result>>
               ELSE IF ~soxr[h]
               THEN /\ result' = [result EXCEPT ![h] = Err("Soxr::process", "ProcessError")]
                    /\ UNCHANGED <<hpc, eng>>
               ELSE /\ eng' = [eng EXCEPT ![h].avail = owed - odone,
                                          ![h].flushing = flushing]
                    /\ result' = [result EXCEPT ![h] =
                                    IF eng[h].error = NoError
                                    THEN Ret("ok", idone, odone)
                                    ELSE Err("Soxr::process", "ProcessError")]
                    /\ UNCHANGED hpc
    /\ UNCHANGED <<soxr, channels, last_trampoline_data, frame, heap, deleteCalls,
                   io_spec>>

\* ------------------------------------------------------------ specification
InitOf(active) ==
    /\ hpc = [h \in Handles |-> IF h \in active THEN "uncreated" ELSE "absent"]
    /\ soxr = [h \in Handles |-> FALSE]
    /\ channels = [h \in Handles |-> 0]
    /\ io_spec = [h \in Handles |-> NoIOSpec]
    /\ last_trampoline_data = [h \in Handles |-> NULL]
    /\ frame = [h \in Handles |-> NoFrame]
    /\ result = [h \in Handles |-> NoResult]
    /\ eng = [h \in Handles |-> NoEngine]
    /\ heap = [b \in Blocks |-> NoBlock]
    /\ userState = "None"
    /\ shim = [h \in Handles |-> NoShim]
    /\ deleteCalls = [h \in Handles |-> 0]
    /\ native = [h \in Handles |-> NoNative]

Init == InitOf({1})

\* Every operation of one handle, each input at the ends of its range.
Next ==
    \E h \in Handles :
        \/ \E c \in {0, MaxChannels}, a \in BOOLEAN : Create(h, c, NoIOSpec, 0, a)
        \/ \E c \in {0, MaxChannels}, a \in BOOLEAN : SetNumChannels(h, c, a)
        \/ \E a \in BOOLEAN : Clear(h, a)
        \/ \E s \in BOOLEAN, m \in {1, MaxSamples} : SetInputBegin(h, s, m)
        \/ \E a \in BOOLEAN : SetInputRegister(h, a)
        \/ \E v \in BOOLEAN : SetInputRegisterNull(h, v)
        \/ \E l \in {0, MaxOlen}, n \in {0, 1, MaxOlen} : OutputCall(h, l, n)
        \/ \E l \in {0, MaxOlen}, n \in {0, 1, MaxOlen}, v \in BOOLEAN :
             OutputCallNull(h, l, n, v)
        \/ OutputReturn(h)
        \/ \E o \in {"live", "stale"} :
             \E r \in SupplierResults(frame[h].ilen) : OutputPull(h, r, o)
        \/ \E o \in {"tag_assert", "segv"} : OutputPullAbort(h, o)
        \/ DropBegin(h)
        \/ DropDelete(h)
        \/ \E i \in {-1, 0, MaxOlen}, o \in {0, MaxOlen} : Process(h, i, o, "ok")

Spec == Init /\ [][Next]_vars

\* The direct mode alone, with every IOSpec, one channel more and buffers of
\* every length up to twice MaxOlen.
NextProcess ==
    \E h \in Handles :
        \/ \E c \in {0, 1, MaxChannels + 1}, spec \in IOSpecs, l \in 0..MaxLatency,
              a \in BOOLEAN : Create(h, c, spec, l, a)
        \/ \E i \in -1..(2 * MaxOlen), o \in 0..(2 * MaxOlen), oc \in {"ok", "segv"} :
              Process(h, i, o, oc)

SpecProcess == Init /\ [][NextProcess]_vars

\* Streaming on engines that were created, with every latency: the direct
\* mode and the callback mode, both on the same handle.
NextStream ==
    \E h \in Handles :
        \/ \E c \in 1..MaxChannels, l \in 0..MaxLatency : Create(h, c, NoIOSpec, l, TRUE)
        \/ \E m \in 1..MaxSamples : SetInputBegin(h, TRUE, m)
        \/ SetInputRegister(h, TRUE)
        \/ \E n \in 0..MaxOlen : OutputCall(h, MaxOlen * MaxChannels, n)
        \/ OutputReturn(h)
        \/ \E r \in SupplierResults(frame[h].ilen) : OutputPull(h, r, "live")
        \/ \E i \in {-1, 0, MaxOlen}, o \in {0, MaxOlen} : Process(h, i, o, "ok")

SpecStream == Init /\ [][NextStream]_vars

\* Callback mode in which the supplier registered last (the one of block
\* MaxBlocks) returns the full requested count on every invocation, as the
\* supplier of test_unsafe_drop does; suppliers registered before it on the
\* same handle do as they like.
FullSupplier(p) == p = BlockPtr(MaxBlocks)

SuppliedBy(h) ==
    IF FullSupplier(eng[h].input_fn_state)
    THEN {r \in SupplierResults(frame[h].ilen) : r.ok /\ r.n = frame[h].ilen}
    ELSE SupplierResults(frame[h].ilen)

NextFull ==
    \E h \in Handles :
        \/ \E c \in 1..MaxChannels, l \in 0..MaxLatency : Create(h, c, NoIOSpec, l, TRUE)
        \/ \E m \in 1..MaxSamples : SetInputBegin(h, TRUE, m)
        \/ SetInputRegister(h, TRUE)
        \/ \E n \in 0..MaxOlen : OutputCall(h, MaxOlen * MaxChannels, n)
        \/ OutputReturn(h)
        \/ \E r \in SuppliedBy(h) : OutputPull(h, r, "live")

SpecFull == Init /\ [][NextFull]_vars

\* The host of the callback-mode tests: create, one set_input, then output
\* with the same sample count again and again (tests/run_with_input_fn.rs,
\* `while soxr.output(&mut buffer, 100) > 0`).
DrainSamples == MaxOlen

DrainOutputCall(h) ==
    eng[h].input_fn /\ OutputCall(h, DrainSamples * MaxChannels, DrainSamples)

NextDrain ==
    \E h \in Handles :
        \/ \E c \in 1..MaxChannels, l \in 0..MaxLatency : Create(h, c, NoIOSpec, l, TRUE)
        \/ ~eng[h].input_fn /\ \E m \in 1..MaxSamples : SetInputBegin(h, TRUE, m)
        \/ SetInputRegister(h, TRUE)
        \/ DrainOutputCall(h)
        \/ OutputReturn(h)
        \/ \E r \in SupplierResults(frame[h].ilen) : OutputPull(h, r, "live")

\* The host keeps calling and a native call that needs no input returns.
\* Nothing is assumed of the supplier.
SpecDrain ==
    /\ Init
    /\ [][NextDrain]_vars
    /\ \A h \in Handles : WF_vars(DrainOutputCall(h)) /\ WF_vars(OutputReturn(h))

\* The control calls on engines created with and without the variable-rate
\* flag, the engine answering each of them with null, with a text or with bytes
\* that do not decode, next to the callback mode.
Answers == EngineAnswers \cup {Undecodable}
Messages == {"message", "interior NUL"}

NextControl ==
    \E h \in Handles :
        \/ \E v \in BOOLEAN, a \in BOOLEAN : CreateQ(h, MaxChannels, NoIOSpec, 0, v, a)
        \/ \E c \in {0, MaxChannels}, d \in Answers : set_num_channels(h, c, d)
        \/ \E d \in Answers : clear(h, d)
        \/ \E d \in Answers : set_io_ratio(h, d)
        \/ \E msg \in Messages, d \in Answers : set_error(h, msg, d)
        \/ SetInputBegin(h, TRUE, MaxSamples)
        \/ \E a \in BOOLEAN : SetInputRegister(h, a)
        \/ OutputCall(h, MaxOlen * MaxChannels, MaxOlen)
        \/ OutputReturn(h)
        \/ \E r \in SupplierResults(frame[h].ilen) : OutputPull(h, r, "live")

SpecControl == Init /\ [][NextControl]_vars

\* Two handles in one thread, their calls interleaved in every order
\* (test_with_two_soxrs): each is created, given a supplier, asked for output
\* and dropped; a registration may be rejected and a freed block may be read.
OfHandle(h) ==
    \/ Create(h, MaxChannels, NoIOSpec, 0, TRUE)
    \/ SetInputBegin(h, TRUE, 1)
    \/ \E a \in BOOLEAN : SetInputRegister(h, a)
    \/ OutputCall(h, MaxChannels, 1)
    \/ OutputReturn(h)
    \/ \E o \in {"live", "stale"} :
         \E r \in SupplierResults(frame[h].ilen) : OutputPull(h, r, o)
    \/ \E o \in {"tag_assert", "segv"} : OutputPullAbort(h, o)
    \/ DropBegin(h)
    \/ DropDelete(h)

NextTwo == \E h \in Handles : OfHandle(h)

SpecTwo == InitOf(Handles) /\ [][NextTwo]_vars

\* Registrations of every sample type, replaced and dropped, and output into
\* buffers of every sample type: what the blocks were allocated with and what
\* they are released with, and what memory the engine is given to write to.
NextTypes ==
    \E h \in Handles :
        \/ \E c \in 1..MaxChannels : Create(h, c, NoIOSpec, 0, TRUE)
        \/ \E m \in 1..MaxSamples, T \in SampleTypes : SetInputBeginOf(h, TRUE, m, T)
        \/ SetInputRegister(h, TRUE)
        \/ \E S \in SampleTypes : OutputCallOf(h, MaxOlen * MaxChannels, MaxOlen, S)
        \/ OutputReturn(h)
        \/ \E r \in SupplierResults(frame[h].ilen) : OutputPull(h, r, "live")
        \/ DropBegin(h)
        \/ DropDelete(h)

SpecTypes == Init /\ [][NextTypes]_vars

\* Soxr::error: None for a null soxr_error, else the decoded text.
error(h) == IF eng[h].error = NoError THEN "None" ELSE from_const(eng[h].error)

\* ------------------------------------------------------------------- claims
EngineHolds(h) == eng[h].status = "live" /\ eng[h].input_fn_state.kind = "block"
BlocksOf(h) == {b \in Blocks : heap[b].owner = h}
LiveBlocksOf(h) == {b \in BlocksOf(h) : heap[b].status = "live"}
ShimRan(h) == shim[h].kind \in {"live", "stale"}

\* C1: inside set_input, the block the engine has registered is never one that
\* has already been freed: the old block is freed only after the native
\* registration of the new one has returned.
C1_OldBlockLiveUntilRegistered ==
    \A h \in Handles :
        (hpc[h] = "set_input" /\ EngineHolds(h)) => Live(eng[h].input_fn_state)

\* C2: during teardown a still-live engine never holds a pointer to a freed
\* block: soxr_delete comes before the block is freed.
C2_EngineDeletedBeforeBlockFreed ==
    \A h \in Handles :
        (hpc[h] = "drop" /\ EngineHolds(h)) => Live(eng[h].input_fn_state)

\* C3: soxr_delete is called exactly once per destroyed handle (and never on a
\* handle that is not destroyed), no block is freed twice, and once the handle
\* is destroyed every block ever allocated for it has been freed exactly once.
C3_ExactlyOnce ==
    /\ \A h \in Handles : deleteCalls[h] = IF hpc[h] = "dropped" THEN 1 ELSE 0
    /\ \A b \in Blocks : heap[b].frees <= 1
    /\ \A h \in Handles : hpc[h] = "dropped" =>
          \A b \in BlocksOf(h) : heap[b].status = "freed" /\ heap[b].frees = 1

C3_Witness ==
    /\ hpc[1] = "dropped"
    /\ eng[1].status = "deleted"
    /\ eng[1].pulled
    /\ Cardinality(BlocksOf(1)) = MaxBlocks

\* C4: between calls, a handle on which a set_input has succeeded has exactly
\* one trampoline block allocated.
C4_ExactlyOneBlockAfterSetInput ==
    \A h \in Handles :
        (hpc[h] = "idle" /\ eng[h].input_fn) => Cardinality(LiveBlocksOf(h)) = 1

\* C5: while the engine is alive, the scratch buffer whose address the shim
\* last published (from a block that was live when the shim ran) belongs to a
\* block that has not been freed since.
C5_PublishedBufferStaysLive ==
    \A h \in Handles :
        (eng[h].status = "live" /\ eng[h].data.kind = "buf" /\ shim[h].kind # "stale")
            => heap[eng[h].data.id].status = "live"

\* C6: at every shim invocation on a live block the scratch buffer has room for
\* requested_len * channels scalars, channels being the handle's current count.
C6_ScratchCapacity ==
    \A h \in Handles :
        shim[h].kind = "live" => shim[h].view >= shim[h].req * shim[h].channels

\* C7: when the supplier returns Ok(n), n = 0 included, the shim publishes the
\* non-null address of the registered block's scratch buffer, returns n, and
\* leaves the last-error slot as it was.
C7_OkPublishesBuffer ==
    \A h \in Handles :
        (ShimRan(h) /\ shim[h].res = "ok") =>
            /\ shim[h].ptr = eng[h].input_fn_state
            /\ shim[h].data = BufPtr(shim[h].ptr.id)
            /\ shim[h].data # NULL
            /\ eng[h].data = shim[h].data
            /\ shim[h].ret = shim[h].n
            /\ shim[h].errAfter = shim[h].errBefore
            /\ heap[shim[h].ptr.id].last_error = shim[h].errBefore

C7_Witness ==
    /\ shim[1].kind = "live"
    /\ shim[1].res = "ok"
    /\ shim[1].n = 0
    /\ shim[1].errBefore # "None"

\* C8: when the supplier returns an error, the shim records that error in the
\* block's last-error slot, publishes a null pointer and returns 0; it
\* publishes a null pointer in no other case.
C8_ErrPublishesNull ==
    \A h \in Handles :
        ShimRan(h) =>
            /\ shim[h].res = "err" =>
                  /\ shim[h].data = NULL
                  /\ eng[h].data = NULL
                  /\ shim[h].ret = 0
                  /\ shim[h].err \in SupplierErrors
                  /\ shim[h].errAfter = shim[h].err
                  /\ shim[h].kind = "live" => heap[shim[h].ptr.id].last_error = shim[h].err
            /\ shim[h].data = NULL => shim[h].res = "err"

C8_Witness ==
    /\ shim[1].kind = "live"
    /\ shim[1].res = "err"
    /\ shim[1].errBefore = "None"
    /\ heap[shim[1].ptr.id].last_error \in SupplierErrors

\* C9 as stated: when the supplier fails on its first invocation, output
\* returns 0 and a following error() gives the generic message and not the
\* supplier's error.
C9_FirstFailureReturnsZero ==
    \A h \in Handles :
        (hpc[h] = "idle" /\ shim[h].kind = "live" /\ shim[h].first_failed # "no") =>
            /\ result[h] = Ret("ok", 0, 0)
            /\ error(h) = InputFnFailure
            /\ error(h) # shim[h].err

\* C9: when the supplier fails on its first invocation and the output call had
\* written no sample before invoking it, output returns 0, a following error()
\* gives the generic message and not the supplier's error, and what the
\* supplier wrote to the user state is there for the host.
C9_FirstFailure ==
    \A h \in Handles :
        (hpc[h] = "idle" /\ shim[h].kind = "live" /\ shim[h].first_failed = "dry") =>
            /\ result[h] = Ret("ok", 0, 0)
            /\ error(h) = InputFnFailure
            /\ error(h) # shim[h].err
            /\ shim[h].res = "err"
            /\ shim[h].write # "keep" => userState = shim[h].write

C9_Witness ==
    /\ hpc[1] = "idle"
    /\ shim[1].kind = "live"
    /\ shim[1].first_failed = "dry"
    /\ shim[1].res = "err"
    /\ shim[1].write = "Some Error"
    /\ userState = "Some Error"
    /\ result[1] = Ret("ok", 0, 0)

\* C10: no shim invocation happens once the teardown of a handle has begun.
C10_NoShimAfterDrop ==
    \A h \in Handles :
        /\ ~shim[h].teardown
        /\ hpc[h] \in {"drop", "dropped"} => shim[h] = NoShim

C10_Witness ==
    /\ hpc[1] = "dropped"
    /\ eng[1].input_fn
    /\ eng[1].pulled
    /\ eng[1].data.kind = "buf"

\* The layouts of a handle's formats, as the engine was told them.
InterleavedIn(h) == ~EngineSplitIn(h)
InterleavedOut(h) == ~EngineSplitOut(h)

\* C11: for an interleaved layout, soxr_process is not called with an input or
\* output buffer whose length is not a whole multiple of the channel count
\* (process returns a SizeMismatch error instead).
C11_SizeMismatchRejected ==
    \A h \in Handles :
        native[h].called =>
            /\ (InterleavedIn(h) /\ ~native[h].none) => native[h].in_len % channels[h] = 0
            /\ InterleavedOut(h) => native[h].out_len % channels[h] = 0

\* C12: the lengths process hands the engine are the buffer lengths divided by
\* the channel count, what the engine reads and writes with them lies inside
\* the buffers, and the counts returned do not exceed those lengths.
C12_LengthsPerChannel ==
    \A h \in Handles :
        native[h].called =>
            /\ native[h].ilen = native[h].in_len \div channels[h]
            /\ native[h].olen = native[h].out_len \div channels[h]
            /\ ReadsInside(h, native[h])
            /\ WritesInside(h, native[h])
            /\ (hpc[h] = "idle" /\ result[h].kind = "ok") =>
                  /\ result[h].n <= native[h].in_len \div channels[h]
                  /\ result[h].m <= native[h].out_len \div channels[h]

\* C13: process(None, out) passes a null input pointer and input length 0,
\* which tells the engine the input has ended, and the consumed count it
\* returns is 0.
C13_NoneIsEndOfInput ==
    \A h \in Handles :
        (native[h].called /\ native[h].none) =>
            /\ native[h].in_null
            /\ native[h].ilen = 0
            /\ (soxr[h] /\ hpc[h] = "idle") => eng[h].flushing
            /\ (hpc[h] = "idle" /\ result[h].kind = "ok") => result[h].n = 0

C13_Witness ==
    /\ native[1].called
    /\ native[1].none
    /\ native[1].out_len > 0
    /\ result[1].kind = "ok"
    /\ result[1].m > 0
    /\ eng[1].flushing

\* C17: for a split input format the look-aside array has one entry per
\* channel, entry k at offset k * (L / channels) of the buffer of length L,
\* and each segment of L / channels samples lies inside the buffer; for an
\* interleaved format the buffer's own start is passed and no entry is made.
C17_SplitPointers ==
    \A h \in Handles :
        (native[h].called /\ ~native[h].none) =>
            LET L == native[h].in_len
                p == native[h].buf_in
            IN IF EngineSplitIn(h)
               THEN /\ p.kind = "split"
                    /\ DOMAIN p.entries = 1..channels[h]
                    /\ \A k \in 1..channels[h] :
                          /\ p.entries[k] = (k - 1) * (L \div channels[h])
                          /\ p.entries[k] + (L \div channels[h]) <= L
               ELSE p = BufferPtr

C17_Witness ==
    /\ native[1].called
    /\ ~native[1].none
    /\ EngineSplitIn(1)
    /\ channels[1] = MaxChannels + 1
    /\ native[1].in_len % channels[1] # 0
    /\ native[1].in_len > channels[1]

\* C18: create returns a handle only when the engine was actually created;
\* when the engine rejects the parameters there is no handle (create returns
\* a CreateError instead).
C18_HandleOnlyIfCreated ==
    \A h \in Handles :
        hpc[h] = "idle" => (soxr[h] /\ eng[h].status = "live")

\* C19: the cached channel count of a handle equals the channel count of its
\* engine: set_num_channels caches the new count exactly when the engine has
\* accepted it, and leaves the cached count alone when it has not.
C19_ChannelsCached ==
    \A h \in Handles :
        (soxr[h] /\ eng[h].status = "live") => channels[h] = eng[h].num_channels

\* A supplier was registered while the count was 0, the count has since been
\* changed, and the last call of the handle was rejected by the engine.
C19_Witness ==
    /\ soxr[1]
    /\ hpc[1] = "idle"
    /\ eng[1].status = "live"
    /\ channels[1] = MaxChannels
    /\ result[1].kind = "ChangeError"
    /\ \E b \in Blocks : /\ heap[b].status = "live"
                         /\ heap[b].owner = 1
                         /\ heap[b].input_buffer_cap = 0

\* A call of output on handle h returns in this step.
OutputReturns(h) == hpc[h] = "output" /\ hpc'[h] = "idle"

\* C14: in callback mode output(buf, n) never returns more than n, whatever
\* the supplier does (also when it delivers more than it was asked for).
C14_OutputAtMostRequested ==
    [][\A h \in Handles :
          (OutputReturns(h) /\ eng[h].input_fn) =>
              /\ result'[h].kind = "ok"
              /\ result'[h].n <= frame[h].len0]_vars

\* The supplier has delivered more than it was asked for and the engine can
\* release more than the buffer has room for: output is about to return n.
C14_Witness ==
    /\ hpc[1] = "output"
    /\ eng[1].input_fn
    /\ shim[1].res = "ok"
    /\ shim[1].n > shim[1].req
    /\ frame[1].len0 = MaxOlen
    /\ Releasable(eng[1].avail, eng[1].flushing, eng[1].latency) > frame[1].olen
    /\ frame[1].odone0 + Odone(1) = frame[1].len0

\* C20: on a handle for which no supplier was ever registered, output returns
\* 0 samples (or is rejected) and no shim is invoked.
C20_DirectModeOutputsNothing ==
    [][\A h \in Handles :
          (OutputReturns(h) /\ ~eng[h].input_fn /\ last_trampoline_data[h] = NULL) =>
              /\ result'[h].n = 0
              /\ shim'[h].kind = "none"]_vars

\* The supplier of handle h has signalled the end of its input.
EndOfInput(h) == eng[h].input_fn /\ eng[h].flushing

OutputBegins(h) == \E n \in 1..MaxOlen : OutputCall(h, MaxOlen * MaxChannels, n)

\* C16 as stated: while the registered supplier returns the full requested
\* count on every invocation, every output(buf, n) returns exactly n.
C16_FullSupplyFullOutput ==
    [][\A h \in Handles :
          (eng[h].input_fn /\ FullSupplier(eng[h].input_fn_state)) =>
              /\ OutputBegins(h) => hpc'[h] = "output"
              /\ OutputReturns(h) => result'[h].n = frame[h].len0]_vars

\* C16, amended: while the registered supplier returns the full requested
\* count on every invocation, every output(buf, n) on an engine that has
\* recorded no input failure and has not been given an end-of-input returns
\* exactly n, also when n exceeds max_samples.
C16_FullSupplyFullOutputUnlessEnded ==
    [][\A h \in Handles :
          (eng[h].input_fn /\ FullSupplier(eng[h].input_fn_state)) =>
              /\ (OutputBegins(h) /\ eng[h].error = NoError) => hpc'[h] = "output"
              /\ (OutputReturns(h) /\ ~eng[h].flushing) =>
                    /\ result'[h].kind = "ok"
                    /\ result'[h].n = frame[h].len0]_vars

\* output has returned n = MaxOlen from a supplier registered with
\* max_samples = 1, asked once per sample, on an engine with the most latency.
C16_Witness ==
    /\ hpc[1] = "idle"
    /\ eng[1].input_fn
    /\ FullSupplier(eng[1].input_fn_state)
    /\ eng[1].max_ilen = 1
    /\ eng[1].latency = MaxLatency
    /\ ~eng[1].flushing
    /\ eng[1].error = NoError
    /\ shim[1].res = "ok"
    /\ shim[1].req = 1
    /\ result[1].kind = "ok"
    /\ result[1].n = MaxOlen

\* C21: a clear, whether the engine accepts it or answers with an error, leaves
\* the registration as it was: the block the handle retains, the engine's input
\* function and state pointer, the cached channel count and the I/O format are
\* the same after the call, and no block is allocated or freed.
C21_ClearKeepsRegistration ==
    [][\A h \in Handles :
          (\E d \in Answers : clear(h, d)) =>
              /\ last_trampoline_data'[h] = last_trampoline_data[h]
              /\ eng'[h].input_fn = eng[h].input_fn
              /\ eng'[h].input_fn_state = eng[h].input_fn_state
              /\ channels'[h] = channels[h]
              /\ io_spec'[h] = io_spec[h]
              /\ heap' = heap]_vars

\* A clear the engine rejected, on a handle whose block is registered.
C21_Witness ==
    /\ result[1] = Err("Soxr::clear", "ChangeError")
    /\ eng[1].input_fn
    /\ eng[1].input_fn_state = last_trampoline_data[1]
    /\ Live(last_trampoline_data[1])

\* C23: set_io_ratio on a handle whose engine was created without the
\* variable-rate flag returns ChangeError, and nothing of the handle, its
\* engine or its block is different afterwards.
C23_FixedRateRejectsRatio ==
    [][\A h \in Handles :
          ((\E d \in Answers : set_io_ratio(h, d)) /\ soxr[h] /\ ~eng[h].variable_rate) =>
              /\ result'[h] = Err("Soxr::set_io_ratio", "ChangeError")
              /\ UNCHANGED <<hpc, soxr, channels, io_spec, last_trampoline_data, eng,
                             heap, deleteCalls>>]_vars

\* The rejected call, on a live fixed-rate engine with a registered block.
C23_Witness ==
    /\ result[1] = Err("Soxr::set_io_ratio", "ChangeError")
    /\ soxr[1]
    /\ eng[1].status = "live"
    /\ ~eng[1].variable_rate
    /\ Live(last_trampoline_data[1])

\* C25: a failure at the native boundary reaches the host as a typed error and
\* never as a panic: no call ends in the panic of decoding what the engine
\* answered.
C25_FailuresAreTyped ==
    \A h \in Handles :
        ~(result[h].kind = "panic" /\ result[h].function # "None")

\* C22: two handles are independent under every interleaving of their calls:
\* a step of one handle changes nothing of the other: not its engine, its
\* retained block or scratch buffer, its fields, or what its last call
\* returned; in particular dropping one handle frees no block of the other.
C22_HandlesIndependent ==
    [][\A a \in Handles : \A b \in Handles \ {a} :
          OfHandle(a) =>
              /\ eng'[b] = eng[b]
              /\ \A k \in BlocksOf(b) : heap'[k] = heap[k]
              /\ last_trampoline_data'[b] = last_trampoline_data[b]
              /\ <<hpc'[b], soxr'[b], channels'[b], io_spec'[b]>> =
                     <<hpc[b], soxr[b], channels[b], io_spec[b]>>
              /\ result'[b] = result[b]
              /\ shim'[b] = shim[b]
              /\ deleteCalls'[b] = deleteCalls[b]]_vars

\* Handle 1 is dropped and its block freed; handle 2 then still gets samples
\* through its own live block.
C22_Witness ==
    /\ hpc[1] = "dropped"
    /\ \E k \in BlocksOf(1) : heap[k].status = "freed"
    /\ hpc[2] = "idle"
    /\ Live(last_trampoline_data[2])
    /\ shim[2].kind = "live"
    /\ result[2].kind = "ok"
    /\ result[2].n > 0

\* C24: process with an empty input buffer and/or an empty output buffer, in
\* the interleaved and in the split layout, makes the native call with a
\* per-channel length of 0 for the empty buffer and does not panic.
C24_EmptyBuffersWellDefined ==
    [][\A h \in Handles :
          \A i \in 0..(2 * MaxOlen), o \in 0..(2 * MaxOlen), oc \in {"ok", "segv"} :
              (Process(h, i, o, oc) /\ (i = 0 \/ o = 0)) =>
                  /\ native'[h].called
                  /\ i = 0 => native'[h].ilen = 0
                  /\ o = 0 => native'[h].olen = 0
                  /\ result'[h].kind # "panic"]_vars

\* C26: when set_input returns Ok, the state pointer the engine has registered
\* with the shim is not null and is the live block the handle retains, also
\* when the call was made with state = None.
C26_OkRegistersRetainedBlock ==
    [][\A h \in Handles :
          ((\E a \in BOOLEAN : SetInputRegister(h, a)) /\ result'[h].kind = "ok") =>
              /\ eng'[h].input_fn
              /\ eng'[h].input_fn_state.kind = "block"
              /\ eng'[h].input_fn_state = last_trampoline_data'[h]
              /\ heap'[eng'[h].input_fn_state.id].status = "live"]_vars

\* C27: after a set_input whose native registration reported an error, the
\* registration is as it was before the call: the handle retains the block the
\* engine still has registered (none if there was none), that block is
\* allocated, and no other block of the handle is.
C27_FailedSetInputRestores ==
    \A h \in Handles :
        (hpc[h] = "idle" /\ soxr[h]
            /\ result[h] = Err("Soxr::set_input", "ProcessError")) =>
            /\ last_trampoline_data[h] =
                  (IF eng[h].input_fn THEN eng[h].input_fn_state ELSE NULL)
            /\ LiveBlocksOf(h) =
                  (IF last_trampoline_data[h] = NULL THEN {}
                   ELSE {last_trampoline_data[h].id})

\* C28: the output pointer of a native process call follows the output
\* datatype alone: it is the array of per-channel pointers exactly when the
\* output datatype is split, and the buffer's own pointer exactly when it is
\* interleaved, whatever the input datatype.
C28_OutputMarshalledByOutputType ==
    \A h \in Handles :
        native[h].called =>
            (native[h].buf_out.kind = "split" <=> EngineSplitOut(h))

\* C30: every invocation of the shim gets a state pointer to a live block
\* tagged "trampoline": no invocation reads a freed block or a null pointer,
\* and none fails the tag assertion.
C30_ShimOnLiveBlock ==
    \A h \in Handles :
        shim[h].kind # "none" =>
            /\ shim[h].kind = "live"
            /\ shim[h].ptr.kind = "block"
            /\ heap[shim[h].ptr.id].check = "trampoline"

\* C29: a block that has been retired was released as it was allocated, for
\* every sample type of the registration: its scratch buffer went back to the
\* allocator with the size it was allocated with.
C29_ReleasedAsAllocated ==
    \A b \in Blocks : heap[b].status = "freed" => heap[b].layout_ok

\* C31: the count the shim returns to the engine never exceeds the number of
\* samples per channel the engine asked for, whatever the supplier returned.
C31_ShimReturnsAtMostRequested ==
    \A h \in Handles :
        ShimRan(h) => shim[h].ret <= shim[h].req

\* C32 as stated: the view the shim hands to the supplier has the requested
\* length, requested_len * channels scalars, and does not extend past the
\* scratch buffer's capacity.
C32_ViewOfRequestedLength ==
    \A h \in Handles :
        shim[h].kind = "live" =>
            /\ shim[h].view = shim[h].req * shim[h].channels
            /\ shim[h].view <= heap[shim[h].ptr.id].input_buffer_cap

\* C32, amended: the view the shim hands to the supplier is the whole scratch
\* buffer as it was sized at the registration, whatever length was requested,
\* and does not extend past the scratch buffer's capacity.
C32_ViewIsWholeScratchBuffer ==
    \A h \in Handles :
        shim[h].kind = "live" =>
            /\ shim[h].view = heap[shim[h].ptr.id].input_buffer_size
            /\ shim[h].view <= heap[shim[h].ptr.id].input_buffer_cap
            /\ heap[shim[h].ptr.id].status = "live"

\* A supplier asked for fewer samples than the scratch buffer holds, and
\* handed all of it.
C32_Witness ==
    /\ shim[1].kind = "live"
    /\ shim[1].res = "ok"
    /\ shim[1].req > 0
    /\ shim[1].req * shim[1].channels < shim[1].view
    /\ shim[1].view = heap[shim[1].ptr.id].input_buffer_cap

\* The Rust type of one scalar of a Datatype: both modelled datatypes are the
\* Float32 ones, whose scalars the engine reads and writes as f32.
scalar_of(t) == "f32"

\* C33: whenever soxr_output has been called, the buffer it was given holds at
\* least the scalars it was asked to write: samples for each channel, each of
\* the size of the engine's output datatype.
C33_OutputWithinBuffer ==
    \A h \in Handles :
        hpc[h] = "output" =>
            frame[h].data_bytes >=
                frame[h].len0 * eng[h].num_channels * size_of(scalar_of(io_spec[h].output_type))

====
